---- MODULE Spec2Model ----
(***************************************************************************)
(* Model of loky's context management (loky/backend/context.py) and of the *)
(* callback dispatch of loky's Future (loky/_base.py).                     *)
(*                                                                         *)
(* Three specifications share the module:                                  *)
(*   SpecContext  get_context / set_start_method / get_start_method        *)
(*   SpecCpu      cpu_count / count_physical and the one-shot cache        *)
(*   SpecFuture   Future._invoke_callbacks and the operations calling it   *)
(*                                                                         *)
(* Python values: None is the string NoneV; a string is itself; an         *)
(* optional integer is a sequence, <<>> for None and <<n>> for n.          *)
(* assert statements are taken as executed (the interpreter runs without   *)
(* -O).                                                                    *)
(***************************************************************************)
EXTENDS Integers, Sequences, FiniteSets, TLC

VARIABLES
    py34,                     \* sys.version_info[:2] >= (3, 4)
    platform,                 \* sys.platform
    DEFAULT_START_METHOD,     \* module global _DEFAULT_START_METHOD
    ctxPrev,                  \* the call before the last one (context API)
    ctxCall,                  \* the last call of the context API and its outcome
    env,                      \* what the OS and the environment report to cpu_count
    cpu_count_physical_cache, \* module global dict
    queries,                  \* results of the platform queries run so far
    cpuCall,                  \* the last cpu_count / count_physical call
    state,                    \* Future._state
    result,                   \* Future._result
    done_callbacks,           \* Future._done_callbacks
    invoked,                  \* callbacks called by the last _invoke_callbacks
    logged,                   \* callbacks whose exception LOGGER.exception reported
    escaped,                  \* exception that left _invoke_callbacks, or NoneV
    atEntry                   \* <<_state, _result>> when _invoke_callbacks was entered

ctxVars == <<DEFAULT_START_METHOD, ctxPrev, ctxCall>>
cpuVars == <<env, cpu_count_physical_cache, queries, cpuCall>>
futVars == <<state, result, done_callbacks, invoked, logged, escaped, atEntry>>
envVars == <<py34, platform>>
vars == <<envVars, ctxVars, cpuVars, futVars>>

NoneV == "<None>"

Range(s) == {s[i] : i \in DOMAIN s}

Min2(a, b) == IF a <= b THEN a ELSE b

Max2(a, b) == IF a >= b THEN a ELSE b

Platforms == {"linux", "win32", "darwin", "other"}

(***************************************************************************)
(* Context management                                                      *)
(***************************************************************************)

\* Python truthiness of a method argument: None and '' are falsy.
Truthy(v) == v # NoneV /\ v # ""

START_METHODS ==
    <<"loky", "loky_init_main">>
      \o (IF py34
          THEN <<"spawn">>
                 \o (IF platform # "win32" THEN <<"fork", "forkserver">> ELSE <<>>)
          ELSE <<>>)

\* Keys of multiprocessing.context._concrete_contexts once loky is imported.
concrete_contexts ==
    (IF platform = "win32" THEN {"spawn"} ELSE {"fork", "spawn", "forkserver"})
      \cup {"loky", "loky_init_main"}

\* method = method or _DEFAULT_START_METHOD or "loky"
ResolveMethod(method) ==
    IF Truthy(method) THEN method
    ELSE IF Truthy(DEFAULT_START_METHOD) THEN DEFAULT_START_METHOD
    ELSE "loky"

NoCall ==
    [op |-> "none", method |-> NoneV, force |-> FALSE, before |-> NoneV,
     outcome |-> "none", value |-> NoneV, warned |-> FALSE,
     errValue |-> NoneV, errValid |-> <<>>]

Returned(c, v, w) ==
    [c EXCEPT !.outcome = "return", !.value = v, !.warned = w]

Raised(c, exc, v, w) ==
    [c EXCEPT !.outcome = exc, !.warned = w, !.errValue = v,
              !.errValid = START_METHODS]

\* get_context of Python >= 3.4: warn on fork, then look the name up.
get_context_py34(c) ==
    LET m == ResolveMethod(c.method)
        w == (m = "fork")
    IN  IF m \in concrete_contexts
        THEN Returned(c, m, w)
        ELSE Raised(c, "ValueError", m, w)

\* get_context of Python 2.7 / 3.3: the two loky contexts only.
get_context_compat(c) ==
    LET m == ResolveMethod(c.method)
    IN  IF m = "loky" THEN Returned(c, "loky", FALSE)
        ELSE IF m = "loky_init_main" THEN Returned(c, "loky_init_main", FALSE)
        ELSE Raised(c, "ValueError", m, FALSE)

MethodArgs ==
    {NoneV, "", "loky", "loky_init_main", "spawn", "fork", "forkserver", "bogus"}

NewCall(op, method, force) ==
    [NoCall EXCEPT !.op = op, !.method = method, !.force = force,
                   !.before = DEFAULT_START_METHOD]

get_context(method) ==
    /\ ctxCall' = (IF py34
                   THEN get_context_py34(NewCall("get_context", method, FALSE))
                   ELSE get_context_compat(NewCall("get_context", method, FALSE)))
    /\ ctxPrev' = ctxCall
    /\ UNCHANGED <<DEFAULT_START_METHOD, envVars, cpuVars, futVars>>

\* Mutant of AlreadySet: the force flag is read the wrong way round.
AlreadySet_ForceInverted(force) == DEFAULT_START_METHOD # NoneV /\ force

\* if _DEFAULT_START_METHOD is not None and not force: raise RuntimeError
AlreadySet(force) == DEFAULT_START_METHOD # NoneV /\ ~force

\* Mutant of ValidStartMethod: the membership check is missing.
ValidStartMethod_Unchecked(method) == TRUE

\* assert method is None or method in START_METHODS
ValidStartMethod(method) == method = NoneV \/ method \in Range(START_METHODS)

set_start_method(method, force) ==
    LET c == NewCall("set_start_method", method, force)
    IN  /\ ctxPrev' = ctxCall
        /\ IF AlreadySet(force)
           THEN /\ ctxCall' = [c EXCEPT !.outcome = "RuntimeError"]
                /\ UNCHANGED DEFAULT_START_METHOD
           ELSE IF ~ValidStartMethod(method)
           THEN /\ ctxCall' = Raised(c, "AssertionError", method, FALSE)
                /\ UNCHANGED DEFAULT_START_METHOD
           ELSE /\ ctxCall' = Returned(c, NoneV, FALSE)
                /\ DEFAULT_START_METHOD' = method
        /\ UNCHANGED <<envVars, cpuVars, futVars>>

get_start_method ==
    /\ ctxCall' = Returned(NewCall("get_start_method", NoneV, FALSE),
                           DEFAULT_START_METHOD, FALSE)
    /\ ctxPrev' = ctxCall
    /\ UNCHANGED <<DEFAULT_START_METHOD, envVars, cpuVars, futVars>>

(***************************************************************************)
(* Resource sizing                                                         *)
(***************************************************************************)

MaxCpu == 2

MaxPhysical == 2

MaxQuota == 3

MaxPeriod == 2

MaxQueries == 2

\* What the platform query can yield: a failure (None) or a core count; 0 is the
\* count of an empty lscpu / wmic output.
QueryOutcomes == {<<>>} \cup {<<n>> : n \in 0..MaxPhysical}

\* An optional integer: <<>> is None (or a raised NotImplementedError).
Opt(S) == {<<>>} \cup {<<n>> : n \in S}

\* os.sched_getaffinity: attribute missing, NotImplementedError, or a CPU set.
Affinities ==
    {[has |-> FALSE, n |-> <<>>]}
      \cup {[has |-> TRUE, n |-> a] : a \in Opt(1..MaxCpu)}

\* The two cgroup files: missing, or holding integers.
Cgroups ==
    {[exists |-> FALSE, quota |-> 0, period |-> 0]}
      \cup {[exists |-> TRUE, quota |-> q, period |-> p] :
              q \in -1..MaxQuota, p \in -1..MaxPeriod}

\* LOKY_MAX_CPU_COUNT: unset, not an integer literal, or an integer literal.
Overrides ==
    {[set |-> FALSE, valid |-> TRUE, n |-> 0], [set |-> TRUE, valid |-> FALSE, n |-> 0]}
      \cup {[set |-> TRUE, valid |-> TRUE, n |-> u] : u \in -1..MaxCpu}

Envs ==
    [mp : Opt(1..MaxCpu), affinity : Affinities, cgroup : Cgroups,
     override : Overrides]

\* try: mp.cpu_count() except NotImplementedError: 1
cpu_count_mp == IF env.mp = <<>> THEN 1 ELSE env.mp[1]

cpu_count_affinity ==
    IF env.affinity.has /\ env.affinity.n # <<>>
    THEN env.affinity.n[1]
    ELSE cpu_count_mp

\* Mutant of CeilDiv: integer (floor) division, as without true division.
CeilDiv_Floor(q, p) == q \div p

\* int(math.ceil(q / p)) for positive q and p
CeilDiv(q, p) == (q + p - 1) \div p

cpu_count_cfs ==
    IF /\ env.cgroup.exists
       /\ env.cgroup.quota > 0
       /\ env.cgroup.period > 0
    THEN CeilDiv(env.cgroup.quota, env.cgroup.period)
    ELSE cpu_count_mp

\* int(os.environ.get('LOKY_MAX_CPU_COUNT', cpu_count_mp)), for a valid literal
cpu_count_loky == IF env.override.set THEN env.override.n ELSE cpu_count_mp

cpu_count_user == Min2(cpu_count_affinity, Min2(cpu_count_cfs, cpu_count_loky))

aggregate_cpu_count == Min2(cpu_count_mp, cpu_count_user)

CacheKey == "cpu_count_physical"

EmptyCache == [k \in {} |-> <<>>]

\* Mutant of CacheHit: the cached value is tested instead of the dict, so a
\* cached None does not count as cached.
CacheHit_ByValue ==
    /\ DOMAIN cpu_count_physical_cache # {}
    /\ cpu_count_physical_cache[CacheKey] # <<>>

\* if cpu_count_physical_cache: a dict is truthy when it has a key
CacheHit == DOMAIN cpu_count_physical_cache # {}

\* What the platform query yields: q on linux/win32/darwin (<<>> when the
\* subprocess or the parsing raised), None on any other platform.
PlatformQuery(q) == IF platform \in {"linux", "win32", "darwin"} THEN q ELSE <<>>

\* count_physical: the value returned, the cache afterwards, whether it queried.
count_physical(q) ==
    IF CacheHit
    THEN [value |-> cpu_count_physical_cache[CacheKey],
          cache |-> cpu_count_physical_cache, queried |-> FALSE]
    ELSE [value |-> PlatformQuery(q),
          cache |-> [k \in {CacheKey} |-> PlatformQuery(q)], queried |-> TRUE]

\* Mutant of LogicalBranch: the floor at 1 is missing.
LogicalBranch_NoFloor == aggregate_cpu_count

\* cpu_count = max(aggregate_cpu_count, 1)
LogicalBranch == Max2(aggregate_cpu_count, 1)

\* if cpu_count_user < cpu_count_mp: cpu_count = max(cpu_count_affinity, 1)
RespectUserSetting == Max2(cpu_count_affinity, 1)

\* Mutant of PhysicalBranch: a missing physical count is read as one core
\* instead of falling back to the logical count.
PhysicalBranch_NoFallback(cpu_count_physical) ==
    IF cpu_count_user < cpu_count_mp THEN Max2(cpu_count_affinity, 1)
    ELSE IF cpu_count_physical = <<>> THEN 1
    ELSE Max2(cpu_count_physical[1], 1)

\* The maybe_physical_only branch, given count_physical's value.
PhysicalBranch(cpu_count_physical) ==
    IF cpu_count_user < cpu_count_mp THEN RespectUserSetting
    ELSE IF cpu_count_physical = <<>> THEN LogicalBranch
    ELSE Max2(cpu_count_physical[1], 1)

NoCpuCall ==
    [op |-> "none", physical_only |-> FALSE, outcome |-> "none", value |-> 0,
     counted |-> FALSE, phys |-> <<>>, queried |-> FALSE]

Record(p) ==
    /\ cpu_count_physical_cache' = p.cache
    /\ queries' = IF p.queried THEN Append(queries, p.value) ELSE queries

cpu_count(maybe_physical_only, q) ==
    /\ IF env.override.set /\ ~env.override.valid
       THEN /\ cpuCall' = [NoCpuCall EXCEPT !.op = "cpu_count",
                              !.physical_only = maybe_physical_only,
                              !.outcome = "ValueError"]
            /\ UNCHANGED <<cpu_count_physical_cache, queries>>
       ELSE IF maybe_physical_only
       THEN LET p == count_physical(q)
            IN  /\ p.queried => Len(queries) < MaxQueries
                /\ Record(p)
                /\ cpuCall' = [NoCpuCall EXCEPT !.op = "cpu_count",
                                  !.physical_only = TRUE, !.outcome = "return",
                                  !.value = PhysicalBranch(p.value),
                                  !.counted = TRUE, !.phys = p.value,
                                  !.queried = p.queried]
       ELSE /\ cpuCall' = [NoCpuCall EXCEPT !.op = "cpu_count",
                              !.outcome = "return",
                              !.value = LogicalBranch]
            /\ UNCHANGED <<cpu_count_physical_cache, queries>>
    /\ UNCHANGED <<env, envVars, ctxVars, futVars>>

count_physical_call(q) ==
    LET p == count_physical(q)
    IN  /\ p.queried => Len(queries) < MaxQueries
        /\ Record(p)
        /\ cpuCall' = [NoCpuCall EXCEPT !.op = "count_physical",
                          !.outcome = "return", !.counted = TRUE,
                          !.phys = p.value, !.queried = p.queried]
        /\ UNCHANGED <<env, envVars, ctxVars, futVars>>

(***************************************************************************)
(* Result Future                                                           *)
(***************************************************************************)

MaxCallbacks == 3

\* Done-callbacks a caller may register, and what each does when called:
\* return, raise an Exception, or raise a BaseException that is no Exception.
Callbacks == {"f", "g", "h"}

Raises(cb) ==
    CASE cb = "f" -> NoneV
      [] cb = "g" -> "ValueError"
      [] cb = "h" -> "KeyboardInterrupt"

Results == {"r1", "r2"}

\* Mutant of Caught: except Exception, which lets KeyboardInterrupt through.
Caught_ExceptionOnly(exc) == exc = "ValueError"

\* except BaseException: every raised object is a BaseException.
Caught(exc) == exc \in {"ValueError", "KeyboardInterrupt"}

\* for callback in self._done_callbacks: try: callback(self) except ...: log
RECURSIVE InvokeFrom(_, _, _)
InvokeFrom(cbs, i, acc) ==
    IF i > Len(cbs) THEN acc
    ELSE LET cb == cbs[i]
             called == [acc EXCEPT !.invoked = Append(acc.invoked, cb)]
         IN  IF Raises(cb) = NoneV
             THEN InvokeFrom(cbs, i + 1, called)
             ELSE IF Caught(Raises(cb))
             THEN InvokeFrom(cbs, i + 1,
                             [called EXCEPT !.logged = Append(called.logged, cb)])
             ELSE [called EXCEPT !.escaped = Raises(cb)]

\* Future._invoke_callbacks on a future in state st holding res.
invoke_callbacks(st, res) ==
    LET out == InvokeFrom(done_callbacks, 1,
                          [invoked |-> <<>>, logged |-> <<>>, escaped |-> NoneV,
                           state |-> st, result |-> res])
    IN  /\ atEntry' = <<st, res>>
        /\ invoked' = out.invoked
        /\ logged' = out.logged
        /\ escaped' = out.escaped
        /\ state' = out.state
        /\ result' = out.result

\* Inherited add_done_callback, on a future that is not done yet.
add_done_callback(fn) ==
    /\ state \in {"PENDING", "RUNNING"}
    /\ Len(done_callbacks) < MaxCallbacks
    /\ done_callbacks' = Append(done_callbacks, fn)
    /\ UNCHANGED <<state, result, invoked, logged, escaped, atEntry>>
    /\ UNCHANGED <<envVars, ctxVars, cpuVars>>

\* Inherited set_running_or_notify_cancel on a pending future.
set_running ==
    /\ state = "PENDING"
    /\ state' = "RUNNING"
    /\ UNCHANGED <<result, done_callbacks, invoked, logged, escaped, atEntry>>
    /\ UNCHANGED <<envVars, ctxVars, cpuVars>>

\* Inherited cancel on a pending future: CANCELLED, then _invoke_callbacks.
cancel ==
    /\ state = "PENDING"
    /\ invoke_callbacks("CANCELLED", result)
    /\ UNCHANGED done_callbacks
    /\ UNCHANGED <<envVars, ctxVars, cpuVars>>

\* Inherited set_result: FINISHED with the result, then _invoke_callbacks.
set_result(v) ==
    /\ state \in {"PENDING", "RUNNING"}
    /\ invoke_callbacks("FINISHED", v)
    /\ UNCHANGED done_callbacks
    /\ UNCHANGED <<envVars, ctxVars, cpuVars>>

(***************************************************************************)
(* Specifications                                                          *)
(***************************************************************************)

InitCtxVars ==
    /\ DEFAULT_START_METHOD = NoneV
    /\ ctxPrev = NoCall
    /\ ctxCall = NoCall

InitCpuVars ==
    /\ cpu_count_physical_cache = EmptyCache
    /\ queries = <<>>
    /\ cpuCall = NoCpuCall

InitFutVars ==
    /\ state = "PENDING"
    /\ result = NoneV
    /\ done_callbacks = <<>>
    /\ invoked = <<>>
    /\ logged = <<>>
    /\ escaped = NoneV
    /\ atEntry = <<"PENDING", NoneV>>

PlainEnv ==
    [mp |-> <<1>>, affinity |-> [has |-> FALSE, n |-> <<>>],
     cgroup |-> [exists |-> FALSE, quota |-> 0, period |-> 0],
     override |-> [set |-> FALSE, valid |-> TRUE, n |-> 0]]

InitContext ==
    /\ py34 \in BOOLEAN
    /\ platform \in Platforms
    /\ env = PlainEnv
    /\ InitCtxVars /\ InitCpuVars /\ InitFutVars

NextContext ==
    \/ \E method \in MethodArgs : get_context(method)
    \/ \E method \in MethodArgs, force \in BOOLEAN : set_start_method(method, force)
    \/ get_start_method

SpecContext == InitContext /\ [][NextContext]_vars

InitCpu ==
    /\ py34 = TRUE
    /\ platform \in Platforms
    /\ env \in Envs
    /\ InitCtxVars /\ InitCpuVars /\ InitFutVars

NextCpu ==
    \/ \E physical \in BOOLEAN, q \in QueryOutcomes : cpu_count(physical, q)
    \/ \E q \in QueryOutcomes : count_physical_call(q)

SpecCpu == InitCpu /\ [][NextCpu]_vars

InitFuture ==
    /\ py34 = TRUE
    /\ platform = "linux"
    /\ env = PlainEnv
    /\ InitCtxVars /\ InitCpuVars /\ InitFutVars

NextFuture ==
    \/ \E fn \in Callbacks : add_done_callback(fn)
    \/ set_running
    \/ cancel
    \/ \E v \in Results : set_result(v)

SpecFuture == InitFuture /\ [][NextFuture]_vars

(***************************************************************************)
(* Properties                                                              *)
(***************************************************************************)

ValidDefaults == {NoneV} \cup Range(START_METHODS)

\* A set_start_method call made without force while a default was registered.
UnforcedSecondSet(c) ==
    c.op = "set_start_method" /\ c.before # NoneV /\ ~c.force

\* C1: once set_start_method(m1) has registered a valid m1, a call
\* set_start_method(m2) without force raises "context has already been set"
\* for every m2; get_start_method() afterwards still returns m1 and
\* get_context() with no argument still returns the context of m1.
C1_SecondSetRejected ==
    /\ UnforcedSecondSet(ctxCall)
         => /\ ctxCall.outcome = "RuntimeError"
            /\ DEFAULT_START_METHOD = ctxCall.before
    /\ ( /\ ctxPrev.op = "set_start_method"
         /\ ctxPrev.outcome = "return"
         /\ ctxPrev.method # NoneV
         /\ UnforcedSecondSet(ctxCall) )
         => ctxCall.before = ctxPrev.method
    /\ (UnforcedSecondSet(ctxPrev) /\ ctxCall.op = "get_start_method")
         => ctxCall.outcome = "return" /\ ctxCall.value = ctxPrev.before
    /\ ( /\ UnforcedSecondSet(ctxPrev)
         /\ ctxCall.op = "get_context"
         /\ ctxCall.method = NoneV )
         => ctxCall.outcome = "return" /\ ctxCall.value = ctxPrev.before

\* set_start_method('spawn') without force has just failed after a
\* successful set_start_method('loky').
C1_Witness ==
    /\ ctxPrev.op = "set_start_method"
    /\ ctxPrev.outcome = "return"
    /\ ctxPrev.method = "loky"
    /\ ctxCall.op = "set_start_method"
    /\ ctxCall.method = "spawn"
    /\ ~ctxCall.force
    /\ ctxCall.outcome = "RuntimeError"
    /\ DEFAULT_START_METHOD = "loky"

\* The method a get_context call settled on: the name of the context it
\* returned, or the name its error reports.
Resolved(c) == IF c.outcome = "return" THEN c.value ELSE c.errValue

\* C4: get_context resolves by strict precedence: a given explicit method is
\* used even when a different default is registered; with no explicit method
\* the registered default is used; with neither, 'loky'. The call never
\* changes the registered default.
C4_StrictPrecedence ==
    ctxCall.op = "get_context"
      => /\ ctxCall.method # NoneV => Resolved(ctxCall) = ctxCall.method
         /\ (ctxCall.method = NoneV /\ ctxCall.before # NoneV)
              => Resolved(ctxCall) = ctxCall.before
         /\ (ctxCall.method = NoneV /\ ctxCall.before = NoneV)
              => Resolved(ctxCall) = "loky"
         /\ DEFAULT_START_METHOD = ctxCall.before

\* C5: get_context with a method name outside START_METHODS returns no
\* context and raises an error naming the invalid value and the valid set;
\* a context is returned only for names inside the set.
C5_UnknownMethodRejected ==
    ctxCall.op = "get_context"
      => /\ (ctxCall.method # NoneV /\ ctxCall.method \notin Range(START_METHODS))
              => /\ ctxCall.outcome = "ValueError"
                 /\ ctxCall.errValue = ctxCall.method
                 /\ ctxCall.errValid = START_METHODS
         /\ ctxCall.outcome = "return" => ctxCall.value \in Range(START_METHODS)

\* C8: the registered default is always None or a member of START_METHODS,
\* and a set_start_method call with a value outside the set raises and
\* leaves the default as it was.
C8_DefaultAlwaysValid ==
    /\ DEFAULT_START_METHOD \in ValidDefaults
    /\ (ctxCall.op = "set_start_method" /\ ctxCall.method \notin ValidDefaults)
         => /\ ctxCall.outcome \in {"RuntimeError", "AssertionError"}
            /\ DEFAULT_START_METHOD = ctxCall.before

\* A forced set_start_method('bogus') was refused by the assertion while
\* 'spawn' was registered.
C8_Witness ==
    /\ ctxCall.op = "set_start_method"
    /\ ctxCall.method = "bogus"
    /\ ctxCall.force
    /\ ctxCall.outcome = "AssertionError"
    /\ ctxCall.before = "spawn"
    /\ DEFAULT_START_METHOD = "spawn"

\* The least element of a non-empty finite set of integers.
Least(S) == CHOOSE x \in S : \A y \in S : x <= y

\* The four counts as the documentation states them: S the system count, A
\* the affinity count, C the ceiling of quota / period, U the override.
DocS == IF env.mp = <<>> THEN 1 ELSE env.mp[1]

DocA == IF env.affinity.has /\ Len(env.affinity.n) = 1 THEN env.affinity.n[1] ELSE DocS

DocC ==
    IF env.cgroup.exists /\ env.cgroup.quota > 0 /\ env.cgroup.period > 0
    THEN Least({c \in 0..env.cgroup.quota : c * env.cgroup.period >= env.cgroup.quota})
    ELSE DocS

DocU == IF env.override.set THEN env.override.n ELSE DocS

DocUser == Least({DocA, DocC, DocU})

DocLogical == Max2(1, Least({DocS, DocA, DocC, DocU}))

IntegerOverride == ~env.override.set \/ env.override.valid

\* C2: cpu_count returns an integer >= 1 for both values of the flag and for
\* every combination of system count, affinity, cgroup quota / period,
\* integer override and physical-core query result.
C2_AtLeastOne ==
    (cpuCall.op = "cpu_count" /\ IntegerOverride)
      => /\ cpuCall.outcome = "return"
         /\ cpuCall.value \in Int
         /\ cpuCall.value >= 1

\* A physical-only call under an override of 0 returned 1.
C2_Witness ==
    /\ cpuCall.op = "cpu_count"
    /\ cpuCall.physical_only
    /\ env.override.set /\ env.override.valid /\ env.override.n = 0
    /\ cpuCall.outcome = "return"
    /\ cpuCall.value = 1

\* C6: in physical-only mode, when the override, the affinity mask or the
\* cgroup quota puts the logical count below the system total, the result is
\* that constrained logical count, max(1, min(A, C, U)), not the physical one.
C6_ConstraintHonored ==
    ( /\ cpuCall.op = "cpu_count"
      /\ cpuCall.physical_only
      /\ IntegerOverride
      /\ DocUser < DocS )
      => /\ cpuCall.outcome = "return"
         /\ cpuCall.value = Max2(1, DocUser)

\* C7: with the flag off cpu_count returns max(1, min(S, A, C, U)).
C7_LogicalCount ==
    ( /\ cpuCall.op = "cpu_count"
      /\ ~cpuCall.physical_only
      /\ IntegerOverride )
      => /\ cpuCall.outcome = "return"
         /\ cpuCall.value = DocLogical

\* A call with the flag off on a 2-CPU system under quota 3 / period 2 and an
\* override of 2 returned 2: the quota counts as ceil(3 / 2) = 2, not 1.
C7_Witness ==
    /\ cpuCall.op = "cpu_count"
    /\ ~cpuCall.physical_only
    /\ env.cgroup.exists /\ env.cgroup.quota = 3 /\ env.cgroup.period = 2
    /\ env.override.set /\ env.override.valid /\ env.override.n = 2
    /\ env.mp = <<2>>
    /\ cpuCall.outcome = "return"
    /\ cpuCall.value = 2

\* C9: over any sequence of cpu_count and count_physical calls the platform
\* query runs at most once, also when it found nothing, and every call that
\* needs the physical count gets the result of that one query.
C9_QueryAtMostOnce ==
    /\ Len(queries) <= 1
    /\ cpuCall.counted => Len(queries) = 1 /\ cpuCall.phys = queries[1]
    /\ cpuCall.queried => cpuCall.counted

\* The one query found nothing, and a later call was served from the cache.
C9_Witness ==
    /\ queries = << <<>> >>
    /\ cpuCall.counted
    /\ ~cpuCall.queried
    /\ platform = "linux"

\* The case of C10: physical-only mode with no constraint below the system
\* total.
Unconstrained ==
    /\ cpuCall.op = "cpu_count"
    /\ cpuCall.physical_only
    /\ IntegerOverride
    /\ ~(DocUser < DocS)

\* C10 as stated: in that case a failed or unavailable query gives the
\* logical count without an error, and a successful query gives the physical
\* count.
C10_PhysicalOrFallback ==
    Unconstrained
      => /\ cpuCall.outcome = "return"
         /\ cpuCall.phys = <<>> => cpuCall.value = DocLogical
         /\ cpuCall.phys # <<>> => cpuCall.value = cpuCall.phys[1]

\* C10 amended: a successful query gives the physical count floored at 1.
C10_PhysicalFlooredOrFallback ==
    Unconstrained
      => /\ cpuCall.outcome = "return"
         /\ cpuCall.phys = <<>> => cpuCall.value = DocLogical
         /\ cpuCall.phys # <<>> => cpuCall.value = Max2(cpuCall.phys[1], 1)

\* An unconstrained physical-only call on a 2-CPU system whose query failed
\* returned the logical count 2.
C10_Witness ==
    /\ Unconstrained
    /\ cpuCall.queried
    /\ cpuCall.phys = <<>>
    /\ platform = "linux"
    /\ cpuCall.value = 2

RaisesSomething(cb) == Raises(cb) # NoneV

\* C3: _invoke_callbacks calls every registered callback exactly once, in
\* registration order, whichever of them raise; each raised error is logged,
\* none leaves _invoke_callbacks, and the Future's state and result stay as
\* they were on entry.
C3_CallbacksIsolated ==
    state \in {"CANCELLED", "FINISHED"}
      => /\ invoked = done_callbacks
         /\ logged = SelectSeq(done_callbacks, RaisesSomething)
         /\ escaped = NoneV
         /\ <<state, result>> = atEntry

\* Three callbacks ran although the first raised KeyboardInterrupt and the
\* second ValueError.
C3_Witness ==
    /\ state = "FINISHED"
    /\ done_callbacks = <<"h", "g", "f">>
    /\ invoked = <<"h", "g", "f">>
    /\ logged = <<"h", "g">>
    /\ result = "r1"

====
